---------------------------- MODULE Spec2Model ----------------------------
(***************************************************************************)
(* A model of the kantek moderation bot: the autobahn blacklist commands   *)
(* (add, del, query) over the ArangoDB blacklist collections, and the      *)
(* automatic event handlers kriminalamt, grenzschutz and add_groups.       *)
(*                                                                         *)
(* Strings are sequences of tokens (a token is a character or a lexeme     *)
(* such as "tg://resolve"), so that the string operations of the code      *)
(* (replace, split, lower, startswith) are computed, not assumed.          *)
(***************************************************************************)
EXTENDS Integers, Sequences, FiniteSets, TLC

VARIABLES
    collections,   \* ArangoDB blacklist collections: hex type -> set of documents
    nextKey,       \* the autoincrement key generator of each collection
    cmds,          \* the command handler invocations (coroutines), in start order
    chats,         \* the Chats collection: set of [id, tags, named_tags] documents
    banlist,       \* the BanList collection: set of [id, reason] documents
    members,       \* platform state: the users that are participants of the group
    rights,        \* platform state: the bot's standing in the group
    tasks,         \* the event handler invocations (coroutines), in dispatch order
    nEvents        \* number of events dispatched so far

vars == <<collections, nextKey, cmds, chats, banlist, members, rights, tasks, nEvents>>

abVars == <<collections, nextKey, cmds>>
evVars == <<chats, banlist, members, rights, tasks, nEvents>>

----------------------------------------------------------------------------
(* Bounds *)

\* number of command invocations in one behaviour
MaxCmds == 2
\* number of platform events dispatched in one behaviour
MaxEvents == 1

----------------------------------------------------------------------------
(* Python values *)

\* Python's None, as a value that is not a string of the input alphabet
None == <<"None">>

\* str.replace(old, '') for a one-token old
Replace(s, old) == SelectSeq(s, LAMBDA t : t # old)

\* str.lower(), token by token
LowerTok(t) == IF t = "E" THEN "e" ELSE IF t = "T" THEN "t" ELSE t

Lower(s) == [i \in 1..Len(s) |-> LowerTok(s[i])]

\* index of the first token of s that is in seps, 0 if there is none
RECURSIVE FirstSep(_, _, _)
FirstSep(s, seps, i) ==
    IF i > Len(s) THEN 0
    ELSE IF s[i] \in seps THEN i
    ELSE FirstSep(s, seps, i + 1)

\* re.split / str.split on one-token separators: the sequence of the parts
RECURSIVE Split(_, _)
Split(s, seps) ==
    LET k == FirstSep(s, seps, 1)
    IN  IF k = 0 THEN <<s>>
        ELSE <<SubSeq(s, 1, k - 1)>> \o Split(SubSeq(s, k + 1, Len(s)), seps)

StartsWith(s, tok) == Len(s) > 0 /\ s[1] = tok

\* Counter(s).get(tok, 0)
RECURSIVE Count(_, _)
Count(s, tok) ==
    IF s = <<>> THEN 0
    ELSE (IF Head(s) = tok THEN 1 ELSE 0) + Count(Tail(s), tok)

----------------------------------------------------------------------------
(* Blacklist types and collections *)

TypeNames ==
    {<<"bio">>, <<"string">>, <<"filename">>, <<"channel">>, <<"domain">>,
     <<"file">>, <<"mhash">>, <<"tld">>}

\* AUTOBAHN_TYPES.get(item_type): the hex code, or "None" for an unknown name
AUTOBAHN_TYPES(name) ==
    CASE name = <<"bio">>      -> "0x0"
      [] name = <<"string">>   -> "0x1"
      [] name = <<"filename">> -> "0x2"
      [] name = <<"channel">>  -> "0x3"
      [] name = <<"domain">>   -> "0x4"
      [] name = <<"file">>     -> "0x5"
      [] name = <<"mhash">>    -> "0x6"
      [] name = <<"tld">>      -> "0x7"
      [] OTHER                 -> "None"

\* the keys of db.ab_collection_map
ab_collection_map == {"0x0", "0x1", "0x3", "0x4", "0x5", "0x6", "0x7"}

\* db.ab_collection_map.get(hex_type) is not None
HasCollection(hex) == hex \in ab_collection_map

\* Collection.fetchByExample({'string': item}): the matching documents
fetchByExample(entries, item) == {d \in entries : d.string = item}

\* AutobahnBlacklist.add_item: a new document under the next autoincrement key
add_item(entries, nk, item) ==
    [entries |-> entries \cup {[key |-> nk, string |-> item]}, nk |-> nk + 1]

----------------------------------------------------------------------------
(* The platform and the helpers the add command normalises through *)

\* helpers.resolve_invite_link(link)[1]: the chat id an invite link encodes,
\* None for a text that is no invite link
ResolveInviteLink(s) ==
    IF StartsWith(s, "joinchat/") /\ Len(s) = 2 /\ s[2] = "h" THEN <<"100">> ELSE None

\* client.get_entity(name).id: the id of the entity of that username; None
\* stands for the raise of one of constants.GET_ENTITY_ERRORS
GetEntityId(s) == IF s = <<"u">> THEN <<"200">> ELSE None

\* client.resolve_url(url): the domain a (possibly shortened) URL leads to
ResolveUrl(s) == IF s = <<"s">> THEN <<"T">> ELSE s

\* constants.TELEGRAM_DOMAINS
TELEGRAM_DOMAINS == {<<"t">>}

\* the loop over the params of a tg://resolve link: the value of the last
\* param that starts with 'domain'; a param that does not split into exactly
\* two parts at '=' raises ValueError (the unpacking of param.split('='))
RECURSIVE DomainParam(_, _)
DomainParam(params, cur) ==
    IF params = <<>> THEN [fault |-> FALSE, v |-> cur]
    ELSE IF StartsWith(Head(params), "domain")
         THEN LET parts == Split(Head(params), {"="})
              IN  IF Len(parts) # 2 THEN [fault |-> TRUE, v |-> cur]
                  ELSE DomainParam(Tail(params), parts[2])
         ELSE DomainParam(Tail(params), cur)

\* the name that add hands to get_entity when the item is no invite link
EntityName(raw) ==
    IF StartsWith(raw, "tg://resolve")
    THEN DomainParam(Tail(Split(raw, {"?", "&"})), raw)
    ELSE [fault |-> FALSE, v |-> Replace(Split(raw, {"?"})[1], "@")]

\* add, hex_type '0x3': the channel id of an invite link, else of the entity
NormChannel(raw) ==
    LET chat_id == ResolveInviteLink(raw)
        name == EntityName(raw)
    IN  IF chat_id # None THEN [kind |-> "ok", item |-> chat_id]
        ELSE IF name.fault THEN [kind |-> "fault", item |-> raw]
        ELSE IF GetEntityId(name.v) = None THEN [kind |-> "skip", item |-> name.v]
        ELSE [kind |-> "ok", item |-> GetEntityId(name.v)]

\* a variant of NormDomain that leaves out the check against Telegram's domains
NormDomainNoSkip(raw) == [kind |-> "ok", item |-> Lower(ResolveUrl(raw))]

\* add, hex_type '0x4': the resolved, lowercased domain; Telegram's own skipped
NormDomain(raw) ==
    LET item == Lower(ResolveUrl(raw))
    IN  IF item \in TELEGRAM_DOMAINS THEN [kind |-> "skip", item |-> item]
        ELSE [kind |-> "ok", item |-> item]

\* s without the tokens tok at its start
RECURSIVE LStrip(_, _)
LStrip(s, tok) == IF s # <<>> /\ Head(s) = tok THEN LStrip(Tail(s), tok) ELSE s

\* the leading dots alone are stripped
NormTldLeading(raw) == [kind |-> "ok", item |-> LStrip(raw, ".")]

\* add, hex_type '0x7'
NormTld(raw) == [kind |-> "ok", item |-> Replace(raw, ".")]

\* the body of add's loop up to the lookup: the item to store, or the skip
Normalise(hex, raw) ==
    LET n == CASE hex = "0x3" -> NormChannel(raw)
               [] hex = "0x4" -> NormDomain(raw)
               [] hex = "0x7" -> NormTld(raw)
               [] OTHER       -> [kind |-> "ok", item |-> raw]
    IN  IF n.kind = "ok" /\ n.item = None THEN [kind |-> "skip", item |-> None]
        ELSE n

\* a variant of StoreItem that stores without looking the item up
StoreItemNoLookup(r, item) ==
    LET a == add_item(r.entries, r.nk, item)
    IN  [r EXCEPT !.entries = a.entries, !.nk = a.nk, !.added = Append(@, item)]

\* add's lookup and store of one normalised item: r carries the collection,
\* its key generator and the three result lists
StoreItem(r, item) ==
    IF fetchByExample(r.entries, item) = {}
    THEN LET a == add_item(r.entries, r.nk, item)
         IN  [r EXCEPT !.entries = a.entries, !.nk = a.nk,
                       !.added = Append(@, item)]
    ELSE [r EXCEPT !.existing = Append(@, item)]

\* one pass of add's loop body for the raw item
AddItem(r, hex, raw) ==
    LET n == Normalise(hex, raw)
    IN  CASE n.kind = "fault" -> [r EXCEPT !.fault = TRUE]
          [] n.kind = "skip"  -> [r EXCEPT !.skipped = Append(@, n.item)]
          [] OTHER            -> StoreItem(r, n.item)

\* add's loop over the items from position i on (no suspension in between)
RECURSIVE AddItems(_, _, _, _)
AddItems(r, hex, items, i) ==
    IF i > Len(items) \/ r.fault THEN r
    ELSE AddItems(AddItem(r, hex, items[i]), hex, items, i + 1)

\* del_'s loop body for the raw item: the lookup value, the first matching
\* document deleted, the lookup value reported
DelItem(r, hex, raw) ==
    LET item == IF hex = "0x3" THEN ResolveInviteLink(raw) ELSE raw
        found == fetchByExample(r.entries, item)
    IN  IF found = {} THEN r
        ELSE LET first == CHOOSE d \in found : \A e \in found : d.key <= e.key
             IN  [r EXCEPT !.entries = @ \ {first}, !.removed = Append(@, item)]

\* del_'s loop over the items from position i on (no suspension in between)
RECURSIVE DelItems(_, _, _, _)
DelItems(r, hex, items, i) ==
    IF i > Len(items) THEN r
    ELSE DelItems(DelItem(r, hex, items[i]), hex, items, i + 1)

----------------------------------------------------------------------------
(* Inputs of the commands *)

PlainItems == {<<"a">>, <<"b">>}
TldItems == {<<".", "c", ".", "u">>, <<"c", "u">>}
DomainItems == {<<"E">>, <<"s">>}
\* an invite link, a username, a name of no entity, and a tg://resolve link
\* whose domain param has no value
ChannelItems ==
    {<<"joinchat/", "h">>, <<"@", "u">>, <<"x">>, <<"tg://resolve", "?", "domain">>}

\* the type names a command is given: the eight known ones and an unknown one
ArgTypes == TypeNames \cup {<<"bogus">>}

InputItems(name) ==
    CASE name = <<"tld">>     -> TldItems
      [] name = <<"domain">>  -> DomainItems
      [] name = <<"channel">> -> ChannelItems
      [] OTHER                -> PlainItems

\* the item lists of a command: no item, one item, two items
ItemLists(name) ==
    {<<>>} \cup {<<a>> : a \in InputItems(name)}
           \cup {<<a, b>> : a \in InputItems(name), b \in InputItems(name)}

\* the positional argument lists: the empty one, and a type name with items
ArgLists == {<<>>} \cup UNION {{<<name>> \o l : l \in ItemLists(name)} : name \in ArgTypes}

\* the items del_ is given: del_ resolves invite links alone and looks every
\* other item up as it is, so for a channel an invite link and one other
\* item stand for all
DelInputItems(name) ==
    IF name = <<"channel">> THEN {<<"joinchat/", "h">>, <<"@", "u">>}
    ELSE InputItems(name)

\* the positional argument lists of del_
DelArgLists ==
    {args \in ArgLists :
        \A k \in 2..Len(args) : args[k] \in DelInputItems(args[1])}

\* what a replied-to message holds, for add file / add mhash without items
ReplyKinds == {"noreply", "text", "file", "photo"}

FileHashes == {<<"f", "1">>, <<"f", "2">>}

\* photo hashes with nine and with eight '0' characters
PhotoHashes ==
    {<<"0", "0", "0", "0", "0", "0", "0", "0", "0">>,
     <<"0", "0", "0", "0", "0", "0", "0", "0", "f">>}

\* the keyword arguments of query: type absent or a name; code absent, an
\* integer or a range
QueryCodes ==
    {[k |-> "none", lo |-> 0, hi |-> 0], [k |-> "int", lo |-> 1, hi |-> 1],
     [k |-> "int", lo |-> 2, hi |-> 2], [k |-> "range", lo |-> 1, hi |-> 3]}

QueryArgs == [type : ArgTypes \cup {None}, code : QueryCodes]

----------------------------------------------------------------------------
(* The command handlers *)

NoKw == [type |-> None, code |-> [k |-> "none", lo |-> 0, hi |-> 0]]

\* a handler invocation the dispatcher has started
NewCmd(cmd, args, kw) ==
    [cmd |-> cmd, args |-> args, kw |-> kw, pc |-> "run", i |-> 1,
     added |-> <<>>, existing |-> <<>>, skipped |-> <<>>, removed |-> <<>>,
     warn |-> FALSE, out |-> "", rows |-> {}]

\* the commands of one behaviour address one type name
SameType(args) ==
    \A j \in 1..Len(cmds) :
        IF args = <<>> \/ cmds[j].args = <<>> THEN TRUE ELSE cmds[j].args[1] = args[1]

\* the types whose items add resolves through the platform (an await per item)
AddAwaitTypes == {"0x3", "0x4"}

\* the working record of a handler on the collection of hex
Work(t, hex) ==
    [entries |-> collections[hex], nk |-> nextKey[hex], added |-> t.added,
     existing |-> t.existing, skipped |-> t.skipped, removed |-> t.removed,
     fault |-> FALSE]

\* the record of invocation idx is written (a new invocation is appended)
Put(idx, rec) ==
    cmds' = IF idx > Len(cmds) THEN Append(cmds, rec) ELSE [cmds EXCEPT ![idx] = rec]

\* the handler's lists and position written back, the collection saved
Commit(idx, t, hex, r, i, pc) ==
    /\ Put(idx, [t EXCEPT !.added = r.added, !.existing = r.existing,
                          !.skipped = r.skipped, !.removed = r.removed,
                          !.i = i, !.pc = pc,
                          !.out = IF pc = "done" THEN "doc" ELSE @])
    /\ collections' = [collections EXCEPT ![hex] = r.entries]
    /\ nextKey' = [nextKey EXCEPT ![hex] = r.nk]

\* the handler moves on without touching a collection
Goto(idx, t, pc, out) ==
    /\ Put(idx, [t EXCEPT !.pc = pc, !.out = out])
    /\ UNCHANGED <<collections, nextKey>>

\* add, from its entry to its first suspension or its return
AddRun(idx, t) ==
    IF t.args = <<>> THEN Goto(idx, t, "fault", "IndexError")
    ELSE LET items == Tail(t.args)
             hex == AUTOBAHN_TYPES(t.args[1])
         IN  CASE items # <<>> /\ ~HasCollection(hex) -> Goto(idx, t, "done", "doc")
               [] items # <<>> /\ hex \in AddAwaitTypes -> Goto(idx, t, "item", "")
               [] items # <<>> ->
                     LET r == AddItems(Work(t, hex), hex, items, 1)
                     IN  Commit(idx, t, hex, r, Len(items) + 1, "done")
               [] items = <<>> /\ hex = "0x5" ->
                     \E reply \in ReplyKinds :
                         IF reply \in {"file", "photo"} THEN Goto(idx, t, "hash", "")
                         ELSE Goto(idx, t, "done", "Need to reply to a file")
               [] items = <<>> /\ hex = "0x6" ->
                     \E reply \in ReplyKinds :
                         IF reply = "photo" THEN Goto(idx, t, "hash", "")
                         ELSE Goto(idx, t, "done", "Need to reply to a photo")
               [] OTHER -> Goto(idx, t, "done", "doc")

\* the add command is dispatched and runs to its first suspension
Add ==
    /\ Len(cmds) < MaxCmds
    /\ \E args \in ArgLists :
           SameType(args) /\ AddRun(Len(cmds) + 1, NewCmd("add", args, NoKw))
    /\ UNCHANGED evVars

\* add resumes with the platform's answer for item i: the item is looked up
\* and stored, and the loop suspends at the next item or the handler returns
AddResume(idx) ==
    LET t == cmds[idx]
        items == Tail(t.args)
        hex == AUTOBAHN_TYPES(t.args[1])
        r == AddItem(Work(t, hex), hex, items[t.i])
    IN  /\ t.cmd = "add" /\ t.pc = "item"
        /\ Commit(idx, t, hex, r, t.i + 1,
                  IF r.fault THEN "fault" ELSE IF t.i = Len(items) THEN "done" ELSE "item")
        /\ UNCHANGED evVars

\* f'{file_hash[:15]}[...]'
ShortHash(h) == SubSeq(h, 1, IF Len(h) < 15 THEN Len(h) ELSE 15) \o <<"[...]">>

\* photo hashes with more zeros than this draw the false-positive warning
WarnZeros == 8

\* the warning is drawn from this many zeros on
WarnsAtLimit(photo_hash) == Count(photo_hash, "0") >= WarnZeros

\* Counter(photo_hash).get('0', 0) > 8
Warns(photo_hash) == Count(photo_hash, "0") > WarnZeros

\* add file / add mhash as a reply: the media is hashed and the hash stored
AddHash(idx) ==
    LET t == cmds[idx]
        hex == IF t.args = <<>> THEN "None" ELSE AUTOBAHN_TYPES(t.args[1])
    IN  /\ t.cmd = "add" /\ t.pc = "hash"
        /\ \E h \in (IF hex = "0x5" THEN FileHashes ELSE PhotoHashes) :
            LET shown == IF hex = "0x5" THEN ShortHash(h) ELSE h
                new == fetchByExample(collections[hex], h) = {}
                a == add_item(collections[hex], nextKey[hex], h)
            IN  /\ cmds' = [cmds EXCEPT ![idx] =
                        [@ EXCEPT !.added = IF new THEN Append(@, shown) ELSE @,
                                  !.existing = IF new THEN @ ELSE Append(@, shown),
                                  !.warn = new /\ hex = "0x6" /\ Warns(h),
                                  !.pc = "done", !.out = "doc"]]
                /\ collections' = [collections EXCEPT ![hex] = IF new THEN a.entries ELSE @]
                /\ nextKey' = [nextKey EXCEPT ![hex] = IF new THEN a.nk ELSE @]
        /\ UNCHANGED evVars

\* del_, from its entry to its first suspension or its return
DelRun(idx, t) ==
    IF t.args = <<>> THEN Goto(idx, t, "fault", "IndexError")
    ELSE LET items == Tail(t.args)
             hex == AUTOBAHN_TYPES(t.args[1])
         IN  CASE items = <<>> \/ ~HasCollection(hex) -> Goto(idx, t, "done", "doc")
               [] hex = "0x3" -> Goto(idx, t, "item", "")
               [] OTHER ->
                     LET r == DelItems(Work(t, hex), hex, items, 1)
                     IN  Commit(idx, t, hex, r, Len(items) + 1, "done")

\* the del command is dispatched and runs to its first suspension
Del ==
    /\ Len(cmds) < MaxCmds
    /\ \E args \in DelArgLists :
           SameType(args) /\ DelRun(Len(cmds) + 1, NewCmd("del", args, NoKw))
    /\ UNCHANGED evVars

\* del_ resumes with the resolved invite link of item i
DelResume(idx) ==
    LET t == cmds[idx]
        items == Tail(t.args)
        hex == AUTOBAHN_TYPES(t.args[1])
        r == DelItem(Work(t, hex), hex, items[t.i])
    IN  /\ t.cmd = "del" /\ t.pc = "item"
        /\ Commit(idx, t, hex, r, t.i + 1, IF t.i = Len(items) THEN "done" ELSE "item")
        /\ UNCHANGED evVars

\* query lists a whole collection key by key up to this many documents
QueryListLimit == 100

\* Collection.fetchDocument(key): the documents under that key (none: the
\* call raises DocumentNotFoundError)
fetchDocument(entries, key) == {d \in entries : d.key = key}

\* the documents from the first key of the range up to the first key that
\* holds none
QueryKeysContiguous(entries, lo, hi) ==
    {d \in entries : d.key \in lo..hi
                        /\ \A k \in lo..d.key : \E e \in entries : e.key = k}

\* FOR doc IN @@collection FILTER doc._key in @keys RETURN doc, with the keys
\* [str(i) for i in code] of the range lo..hi
QueryKeys(entries, lo, hi) == {d \in entries : d.key \in lo..hi}

\* query: the whole handler (it never suspends)
QueryRun(t) ==
    LET item_type == t.kw.type
        code == t.kw.code
        hex == IF item_type = None THEN "None" ELSE AUTOBAHN_TYPES(item_type)
    IN  CASE item_type # None /\ ~HasCollection(hex) ->
                  [t EXCEPT !.pc = "fault", !.out = "KeyError"]
          [] item_type = None /\ code.k = "none" ->
                  [t EXCEPT !.pc = "fault", !.out = "AttributeError"]
          [] item_type = None -> [t EXCEPT !.pc = "done", !.out = "None"]
          [] code.k = "none" ->
                  [t EXCEPT !.pc = "done", !.rows = collections[hex],
                            !.out = IF Cardinality(collections[hex]) > QueryListLimit
                                    THEN "pre" ELSE "items"]
          [] code.k = "int" ->
                  IF fetchDocument(collections[hex], code.lo) = {}
                  THEN [t EXCEPT !.pc = "fault", !.out = "DocumentNotFoundError"]
                  ELSE [t EXCEPT !.pc = "done", !.out = "string",
                                 !.rows = fetchDocument(collections[hex], code.lo)]
          [] OTHER ->
                  [t EXCEPT !.pc = "done", !.out = "items",
                            !.rows = QueryKeys(collections[hex], code.lo, code.hi)]

\* the query command is dispatched and runs
Query ==
    /\ Len(cmds) < MaxCmds
    /\ \E kw \in QueryArgs :
           LET args == IF kw.type = None THEN <<>> ELSE <<kw.type>>
           IN  /\ SameType(args)
               /\ cmds' = Append(cmds, QueryRun(NewCmd("query", args, kw)))
    /\ UNCHANGED <<collections, nextKey, evVars>>

----------------------------------------------------------------------------
(* The specification of the blacklist commands *)

InitAutobahn ==
    /\ collections = [hex \in ab_collection_map |-> {}]
    /\ nextKey = [hex \in ab_collection_map |-> 1]
    /\ cmds = <<>>
    /\ chats = {}
    /\ banlist = {}
    /\ members = {}
    /\ rights = [creator |-> FALSE, admin_rights |-> "None"]
    /\ tasks = <<>>
    /\ nEvents = 0

NextAutobahn ==
    \/ Add
    \/ \E idx \in 1..Len(cmds) : AddResume(idx)
    \/ \E idx \in 1..Len(cmds) : AddHash(idx)
    \/ Del
    \/ \E idx \in 1..Len(cmds) : DelResume(idx)
    \/ Query

SpecAutobahn == InitAutobahn /\ [][NextAutobahn]_vars

\* the type names that have a collection
StoredTypes == {name \in TypeNames : HasCollection(AUTOBAHN_TYPES(name))}

\* the collection of a type name after an add of items and a del_ of dels
History(name, items, dels) ==
    LET hex == AUTOBAHN_TYPES(name)
        fresh == [entries |-> {}, nk |-> 1, added |-> <<>>, existing |-> <<>>,
                  skipped |-> <<>>, removed |-> <<>>, fault |-> FALSE]
    IN  DelItems(AddItems(fresh, hex, items, 1), hex, dels, 1)

\* the blacklists as an add and a del_ of one type have left them: with the
\* keys of removed items missing
InitQuery ==
    /\ \E name \in StoredTypes :
         \E items \in ItemLists(name), dels \in ItemLists(name) :
           LET r == History(name, items, dels)
           IN  /\ collections = [hex \in ab_collection_map |->
                                   IF hex = AUTOBAHN_TYPES(name) THEN r.entries ELSE {}]
               /\ nextKey = [hex \in ab_collection_map |->
                                   IF hex = AUTOBAHN_TYPES(name) THEN r.nk ELSE 1]
    /\ cmds = <<>>
    /\ chats = {}
    /\ banlist = {}
    /\ members = {}
    /\ rights = [creator |-> FALSE, admin_rights |-> "None"]
    /\ tasks = <<>>
    /\ nEvents = 0

\* queries of the blacklists a history has left
SpecQuery == InitQuery /\ [][Query]_vars

----------------------------------------------------------------------------
(* Chats, tags and the ban list *)

\* the group the events of the model happen in
Group == 10

Users == {1}

\* event.message.from_id of a message without a sender
NoUser == 0

\* tag values: absent, an integer, a string, or the mark of a tag that is
\* listed in the chat's tags without a value
Absent == [t |-> "none", n |-> 0, s |-> <<>>]
TInt(n) == [t |-> "int", n |-> n, s |-> <<>>]
TStr(s) == [t |-> "str", n |-> 0, s |-> s]
Flag == [t |-> "flag", n |-> 0, s |-> <<>>]

\* Python's truth value of a tag value
Truthy(v) ==
    CASE v.t = "none" -> FALSE
      [] v.t = "int"  -> v.n # 0
      [] v.t = "str"  -> v.s # <<>>
      [] OTHER        -> TRUE

Digits == {"0", "1", "2", "3"}

\* str.isdigit()
IsDigit(s) == s # <<>> /\ \A i \in 1..Len(s) : s[i] \in Digits

DigitVal(tok) == CASE tok = "0" -> 0 [] tok = "1" -> 1 [] tok = "2" -> 2 [] OTHER -> 3

\* int(s) of a digit string
RECURSIVE IntOf(_)
IntOf(s) == IF s = <<>> THEN 0 ELSE 10 * IntOf(SubSeq(s, 1, Len(s) - 1)) + DigitVal(s[Len(s)])

\* Chats.add_chat: the document of a new chat, with no tags
NewChat(chat_id) == [id |-> chat_id, tags |-> {}, named_tags |-> [x \in {} |-> Absent]]

\* the document of the chat is written anew
add_chat_reset(docs, chat_id) == {d \in docs : d.id # chat_id} \cup {NewChat(chat_id)}

\* Chats.add_chat: createDocument/save raise CreationError for a key that
\* exists, and the collection is left as it was
add_chat(docs, chat_id) ==
    IF \E d \in docs : d.id = chat_id THEN docs ELSE docs \cup {NewChat(chat_id)}

\* Chats.get_chat: the document is fetched, or created if it is not found
get_chat(docs, chat_id) == add_chat(docs, chat_id)

\* Tags(event).get(name, default): named_tags first, then tags, then default
TagsGet(docs, chat_id, name, default) ==
    IF \E d \in docs : d.id = chat_id
    THEN LET doc == CHOOSE d \in docs : d.id = chat_id
         IN  IF name \in DOMAIN doc.named_tags THEN doc.named_tags[name]
             ELSE IF name \in doc.tags THEN Flag
             ELSE default
    ELSE default

\* a reason that names the chat alone
ReasonKNoDelay(chat_id, delay) == [kind |-> "Kriminalamt", chat |-> chat_id, delay |-> 0]

\* ban reasons: f'Kriminalamt #{chat.id} No. {delay}', and any other reason
ReasonK(chat_id, delay) == [kind |-> "Kriminalamt", chat |-> chat_id, delay |-> delay]
OtherReason == [kind |-> "spam", chat |-> 0, delay |-> 0]
NoReason == [kind |-> "", chat |-> 0, delay |-> 0]

\* the new record takes the place of the stored one
add_user_overwrite(bans, id, reason) ==
    {d \in bans : d.id # id} \cup {[id |-> id, reason |-> reason]}

\* BanList.add_user: createDocument/save raise CreationError for a key that
\* exists, and the stored document is kept
add_user(bans, id, reason) ==
    IF \E d \in bans : d.id = id THEN bans ELSE bans \cup {[id |-> id, reason |-> reason]}

\* what BanList.add_user returns: the new document, or None after the
\* CreationError of a key that exists
add_user_doc(bans, id, reason) ==
    IF \E d \in bans : d.id = id THEN None ELSE [id |-> id, reason |-> reason]

\* BanList.get_user: the document under the key, or None after the
\* DocumentNotFoundError of fetchDocument
get_user(bans, uid) ==
    IF \E d \in bans : d.id = uid THEN CHOOSE d \in bans : d.id = uid ELSE None

\* the query of grenzschutz: FOR doc IN BanList FILTER doc._key == @id
BanRecords(bans, id) == {d \in bans : d.id = id}

----------------------------------------------------------------------------
(* Events and the dispatch to the registered handlers *)

\* chat actions: a join by link, an add by another user, a join that carries
\* no service message, a leave, a kick, any other action (title, pin, ...)
Actions == {"JoinedByLink", "AddUser", "JoinNoMsg", "Left", "Kicked", "Other"}

\* chat actions happen in the group; bot is user.bot of the acting account
ChatActionEvents ==
    {e \in [kind : {"ChatAction"}, action : Actions, user : Users, private : {FALSE},
            bot : BOOLEAN] : e.bot => e.action = "JoinedByLink"}

\* messages come from a user, in the group or in private, or from no user
NewMessageEvents ==
    {e \in [kind : {"NewMessage"}, action : {"Message"}, user : Users \cup {NoUser},
            private : BOOLEAN, bot : {FALSE}] : e.private => e.user # NoUser}

Events == ChatActionEvents \cup NewMessageEvents

\* a user has joined or was added by another user
user_joined_or_added(e) == e.action \in {"JoinedByLink", "JoinNoMsg", "AddUser"}

\* ChatAction.Event.user_joined, user_left, user_kicked
user_joined(e) == e.action \in {"JoinedByLink", "JoinNoMsg"}
user_left(e) == e.action = "Left"
user_kicked(e) == e.action = "Kicked"

\* event.action_message is None
NoActionMessage(e) == e.action = "JoinNoMsg"

\* event.chat_id: the group, or for a private message the sender's own chat
ChatId(e) == IF e.private THEN e.user ELSE Group

\* the text of a relayed ban command, f'{bancmd} {userid} {reason}', and the
\* text of an invocation that has relayed none
RelayText(bancmd, userid, reason) == [cmd |-> bancmd, user |-> userid, reason |-> reason]
NoText == RelayText(Absent, NoUser, NoReason)

\* the handlers registered for an event kind, in registration order
Registered(kind) ==
    IF kind = "ChatAction" THEN <<"kriminalamt", "grenzschutz">>
    ELSE <<"grenzschutz", "add_groups">>

\* a handler invocation the dispatcher has started for event number ev: its
\* position, the requests it has issued (acts), its locals, what the platform
\* has answered it (participant, admin, rejected), and whether the ban list
\* held a record of the acting user when the event arrived (listed)
NewTask(h, ev, e) ==
    [h |-> h, ev |-> ev, e |-> e, pc |-> "start", acts |-> <<>>,
     delay |-> 0, bancmd |-> Absent, silent |-> FALSE, bound |-> TRUE,
     participant |-> "unasked", admin |-> FALSE, rejected |-> FALSE,
     listed |-> BanRecords(banlist, e.user) # {},
     reason |-> NoReason, total |-> 0, text |-> NoText]

\* the platform's own effect of a chat action on the membership
Membership(m, e) ==
    IF e.kind # "ChatAction" THEN m
    ELSE IF e.action \in {"JoinedByLink", "AddUser", "JoinNoMsg"} THEN m \cup {e.user}
    ELSE IF e.action \in {"Left", "Kicked"} THEN m \ {e.user}
    ELSE m

\* a fault in one invocation stops the invocations of the same event
RunningUnlessFault(i) ==
    /\ tasks[i].pc \notin {"done", "fault"}
    /\ \A j \in 1..Len(tasks) : tasks[j].ev = tasks[i].ev => tasks[j].pc # "fault"

\* a handler invocation can be scheduled: it has not returned nor raised,
\* whatever has become of the other invocations
Running(i) == tasks[i].pc \notin {"done", "fault"}

\* the invocation moves to pc, with its record updated to t
Move(i, t, pc) == tasks' = [tasks EXCEPT ![i] = [t EXCEPT !.pc = pc]]

\* a platform request the handler has issued
Act(op, user, reason) == [op |-> op, user |-> user, reason |-> reason]

Did(t, op) == \E k \in 1..Len(t.acts) : t.acts[k].op = op

----------------------------------------------------------------------------
(* kriminalamt *)

\* the delay when the tag is neither an integer nor a digit string
DefaultDelay == 1

\* the seconds kriminalamt waits for a truthy tag value
KDelay(tag) ==
    IF tag.t = "int" THEN tag.n
    ELSE IF tag.t = "str" /\ IsDigit(tag.s) THEN IntOf(tag.s)
    ELSE DefaultDelay

\* the check is off for bots only
DisabledForBots(kriminalamt_tag, bot) == bot

\* the check is off where the tag is absent or falsy, and for bots
Disabled(kriminalamt_tag, bot) == ~Truthy(kriminalamt_tag) \/ bot

\* kriminalamt, from its entry to the start of its wait: the invocation as
\* it suspends or returns
KStart(t) ==
    LET e == t.e
        kriminalamt_tag == TagsGet(chats, ChatId(e), "kriminalamt", Absent)
        bancmd == TagsGet(chats, ChatId(e), "gbancmd", TStr(<<"manual">>))
    IN  IF ~user_joined(e) THEN [t EXCEPT !.pc = "done"]
        ELSE IF Disabled(kriminalamt_tag, e.bot) THEN [t EXCEPT !.pc = "done"]
        ELSE [t EXCEPT !.delay = KDelay(kriminalamt_tag), !.bancmd = bancmd,
                       !.pc = "sleep"]

\* client.gban: the global ban is recorded in the ban list
gban(bans, uid, reason) == add_user(bans, uid, reason)

\* the user joined, so is taken for a participant
JoinedSoParticipant(m, user) == TRUE

\* GetParticipantRequest(chat, user): the user is a participant now
\* (UserNotParticipantError otherwise)
IsParticipant(m, user) == user \in m

\* kriminalamt after its wait: the membership query, and the global ban of a
\* user who is no participant
KWake(i) ==
    LET t == tasks[i]
        reason == ReasonK(ChatId(t.e), t.delay)
    IN  /\ Running(i) /\ t.h = "kriminalamt" /\ t.pc = "sleep"
        /\ IF IsParticipant(members, t.e.user)
           THEN Move(i, [t EXCEPT !.participant = "yes"], "done") /\ UNCHANGED banlist
           ELSE /\ Move(i, [t EXCEPT !.reason = reason, !.participant = "no",
                                     !.acts = Append(@, Act("gban", t.e.user, reason))],
                        "gbanned")
                /\ banlist' = gban(banlist, t.e.user, reason)
        /\ UNCHANGED <<chats, members, rights, nEvents, abVars>>

\* the bot acts in every chat
CreatorOrAdminAnywhere(r) == TRUE

\* chat.creator or chat.admin_rights
CreatorOrAdmin(r) == r.creator \/ r.admin_rights # "None"

\* every chat is banned in by the bot itself
ManualAlways(bancmd) == TRUE

\* bancmd == 'manual'
Manual(bancmd) == bancmd = TStr(<<"manual">>)

\* kriminalamt after the global ban: the local ban or the relayed command,
\* where the bot is creator or admin
KLocal(i) ==
    LET t == tasks[i] IN
    /\ Running(i) /\ t.h = "kriminalamt" /\ t.pc = "gbanned"
    /\ IF CreatorOrAdmin(rights)
       THEN IF Manual(t.bancmd)
            THEN Move(i, [t EXCEPT !.acts = Append(@, Act("ban", t.e.user, NoReason))],
                      "purge")
            ELSE IF t.bancmd.t # "none"
            THEN Move(i, [t EXCEPT !.acts = Append(@, Act("relay", t.e.user, t.reason)),
                                   !.text = RelayText(t.bancmd, t.e.user, t.reason)],
                      "purge")
            ELSE Move(i, t, "purge")
       ELSE Move(i, t, "done")
    /\ UNCHANGED <<chats, banlist, members, rights, nEvents, abVars>>

\* up to this many messages the user's whole history is deleted
PurgeLimit == 5

\* the numbers of messages of the user that get_messages may report
MsgTotals == {PurgeLimit, PurgeLimit + 1}

\* the join message alone is deleted only above twice the limit
WholeHistoryLenient(total) == total <= 2 * PurgeLimit

\* messages.total <= 5
WholeHistory(total) == total <= PurgeLimit

\* kriminalamt's purge: the user's history, or the join message alone
KPurge(i) ==
    LET t == tasks[i] IN
    /\ Running(i) /\ t.h = "kriminalamt" /\ t.pc = "purge"
    /\ \E total \in MsgTotals :
           Move(i, [t EXCEPT !.total = total,
                             !.acts = Append(@, Act(IF WholeHistory(total)
                                                    THEN "delete_history" ELSE "delete",
                                                    t.e.user, NoReason))],
                "done")
    /\ UNCHANGED <<chats, banlist, members, rights, nEvents, abVars>>

----------------------------------------------------------------------------
(* grenzschutz *)

\* the acting user: event.user_id, or event.message.from_id
Uid(e) == e.user

\* the bot is not the creator
CannotBanUnlessCreator(r) == ~r.creator

\* the bot is neither creator nor admin
CannotBanWithoutStanding(r) == ~r.creator /\ r.admin_rights = "None"

\* the bot is neither creator nor admin, or is an admin without ban_users
CannotBan(r) == (~r.creator /\ r.admin_rights = "None") \/ r.admin_rights = "noban"

\* both tags have to exclude the chat
ExcludedByBoth(grenzschutz_tag, polizei_tag) ==
    grenzschutz_tag = TStr(<<"exclude">>) /\ polizei_tag = TStr(<<"exclude">>)

\* the chat is excluded by either tag
Excluded(grenzschutz_tag, polizei_tag) ==
    grenzschutz_tag = TStr(<<"exclude">>) \/ polizei_tag = TStr(<<"exclude">>)

\* grenzschutz, from its entry to the lookup of the acting user's entity: the
\* invocation as it suspends or returns
GStart(t) ==
    LET e == t.e
        polizei_tag == TagsGet(chats, ChatId(e), "polizei", Absent)
        grenzschutz_tag == TagsGet(chats, ChatId(e), "grenzschutz", Absent)
        silent == grenzschutz_tag = TStr(<<"silent">>)
    IN  CASE e.private -> [t EXCEPT !.pc = "done"]
          [] e.kind = "ChatAction" /\ (user_left(e) \/ user_kicked(e)) ->
                 [t EXCEPT !.pc = "done"]
          [] e.kind = "ChatAction" /\ NoActionMessage(e) -> [t EXCEPT !.pc = "done"]
          [] e.kind = "ChatAction" /\ e.action \notin {"JoinedByLink", "AddUser"} ->
                 [t EXCEPT !.pc = "done"]
          [] CannotBan(rights) -> [t EXCEPT !.pc = "done"]
          [] Excluded(grenzschutz_tag, polizei_tag) -> [t EXCEPT !.pc = "done"]
          [] Uid(e) = NoUser -> [t EXCEPT !.pc = "done"]
          [] OTHER -> [t EXCEPT !.silent = silent, !.pc = "entity"]

\* grenzschutz after get_entity (a ValueError is logged and leaves user
\* unbound): the ban list is queried for the acting user
GEntity(i) ==
    LET t == tasks[i]
        result == BanRecords(banlist, Uid(t.e))
    IN  /\ Running(i) /\ t.h = "grenzschutz" /\ t.pc = "entity"
        /\ IF result = {} THEN Move(i, t, "done")
           ELSE \E bound \in BOOLEAN :
                    Move(i, [t EXCEPT !.bound = bound,
                                      !.reason = (CHOOSE d \in result : TRUE).reason],
                         "admins")
        /\ UNCHANGED <<chats, banlist, members, rights, nEvents, abVars>>

\* grenzschutz after get_participants: a user who is no admin is banned
GAdmins(i) ==
    LET t == tasks[i] IN
    /\ Running(i) /\ t.h = "grenzschutz" /\ t.pc = "admins"
    /\ \E admin \in BOOLEAN :
           IF admin THEN Move(i, [t EXCEPT !.admin = TRUE], "done")
           ELSE Move(i, [t EXCEPT !.acts = Append(@, Act("ban", Uid(t.e), NoReason))],
                     "ban")
    /\ UNCHANGED <<chats, banlist, members, rights, nEvents, abVars>>

\* the deletion is requested whatever the ban call has answered
GBannedGoesOn(i) ==
    LET t == tasks[i] IN
    /\ Running(i) /\ t.h = "grenzschutz" /\ t.pc = "ban"
    /\ \E rejected \in BOOLEAN :
           Move(i, [t EXCEPT !.rejected = rejected,
                             !.acts = Append(@, Act("delete", Uid(t.e), NoReason))],
                "delete")
    /\ UNCHANGED <<chats, banlist, members, rights, nEvents, abVars>>

\* grenzschutz after the ban call: UserIdInvalidError is logged and ends the
\* handler, else the triggering action or message is deleted
GBanned(i) ==
    LET t == tasks[i] IN
    /\ Running(i) /\ t.h = "grenzschutz" /\ t.pc = "ban"
    /\ \E rejected \in BOOLEAN :
           IF rejected THEN Move(i, [t EXCEPT !.rejected = TRUE], "done")
           ELSE Move(i, [t EXCEPT !.acts = Append(@, Act("delete", Uid(t.e), NoReason))],
                     "delete")
    /\ UNCHANGED <<chats, banlist, members, rights, nEvents, abVars>>

\* grenzschutz after the deletion: the notification, unless silent; building
\* it reads user, which is unbound after a failed get_entity (NameError)
GNotify(i) ==
    LET t == tasks[i] IN
    /\ Running(i) /\ t.h = "grenzschutz" /\ t.pc = "delete"
    /\ IF t.silent THEN Move(i, t, "done")
       ELSE IF ~t.bound THEN Move(i, t, "fault")
       ELSE Move(i, [t EXCEPT !.acts = Append(@, Act("notify", Uid(t.e), t.reason))],
                 "done")
    /\ UNCHANGED <<chats, banlist, members, rights, nEvents, abVars>>

----------------------------------------------------------------------------
(* add_groups *)

\* add_groups: the whole handler (it never suspends): the Chats collection
\* after it
add_groups(docs, e) == IF e.private THEN docs ELSE get_chat(docs, ChatId(e))

AGStart(t) == [t EXCEPT !.pc = "done"]

----------------------------------------------------------------------------
(* The dispatcher *)

\* a handler runs from its entry to its first suspension
Entry(t) ==
    CASE t.h = "kriminalamt" -> KStart(t)
      [] t.h = "grenzschutz" -> GStart(t)
      [] OTHER               -> AGStart(t)

\* dispatch_event: every handler registered for the event's kind is invoked,
\* and runs to its first suspension
Dispatch ==
    /\ nEvents < MaxEvents
    /\ \E e \in Events :
           /\ tasks' = tasks \o [k \in 1..Len(Registered(e.kind)) |->
                                    Entry(NewTask(Registered(e.kind)[k], nEvents + 1, e))]
           /\ members' = Membership(members, e)
           /\ chats' = IF e.kind = "NewMessage" THEN add_groups(chats, e) ELSE chats
    /\ nEvents' = nEvents + 1
    /\ UNCHANGED <<banlist, rights, abVars>>

----------------------------------------------------------------------------
(* The platform around the handlers *)

Waiting == \E i \in 1..Len(tasks) : tasks[i].pc = "sleep"

\* a participant leaves the group while a kriminalamt check waits
UserLeaves ==
    /\ Waiting
    /\ \E u \in members : members' = members \ {u}
    /\ UNCHANGED <<chats, banlist, rights, tasks, nEvents, abVars>>

\* a user comes back to the group while a kriminalamt check waits
UserReturns ==
    /\ Waiting
    /\ \E u \in Users \ members : members' = members \cup {u}
    /\ UNCHANGED <<chats, banlist, rights, tasks, nEvents, abVars>>

\* a user is banned by hand while a kriminalamt check waits
ManualBan ==
    /\ Waiting
    /\ \E u \in Users : /\ BanRecords(banlist, u) = {}
                        /\ banlist' = add_user(banlist, u, OtherReason)
    /\ UNCHANGED <<chats, members, rights, tasks, nEvents, abVars>>

----------------------------------------------------------------------------
(* The specification of the event handlers *)

KVals == {Absent, TInt(2), TStr(<<"3">>), TStr(<<"x">>)}
BVals == {Absent, TStr(<<"manual">>), TStr(<<"/gban">>)}
GVals == {Absent, TStr(<<"silent">>), TStr(<<"exclude">>)}
PVals == {Absent, TStr(<<"exclude">>)}

\* the named_tags that hold the tag values given (absent ones are left out)
Cfg(k, b, g, p) ==
    LET all == [kriminalamt |-> k, gbancmd |-> b, grenzschutz |-> g, polizei |-> p]
    IN  [n \in {m \in DOMAIN all : all[m].t # "none"} |-> all[n]]

\* the configurations of the group: the values of the kriminalamt tag, those
\* of gbancmd under one of them, and the values of grenzschutz and polizei
\* with kriminalamt off
Configs ==
    {Cfg(k, Absent, Absent, Absent) : k \in KVals}
        \cup {Cfg(TInt(2), b, Absent, Absent) : b \in BVals}
        \cup {Cfg(Absent, Absent, g, p) : g \in GVals, p \in PVals}

\* the group has no document yet, or one with one of the configurations
GroupDocs == {{}} \cup {{[id |-> Group, tags |-> {}, named_tags |-> c]} : c \in Configs}

\* the bot's standing: chat.creator, and chat.admin_rights (None, or with or
\* without ban_users)
Rights == [creator : BOOLEAN, admin_rights : {"None", "ban", "noban"}]

\* the standings kriminalamt tells apart: neither creator nor admin, creator,
\* admin
KRights == {r \in Rights : ~(r.creator /\ r.admin_rights # "None") /\ r.admin_rights # "ban"}

\* the ban list is empty, or holds a record of the user
BanLists == {{}, {[id |-> u, reason |-> OtherReason] : u \in Users}}

\* the groups the events happen in. Where kriminalamt is configured the ban
\* list starts empty (records come as the check waits and acts) and the bot's
\* standing is one of those kriminalamt tells apart; where it is not, every
\* standing goes with every ban list
Worlds ==
    {w \in [docs : GroupDocs, bans : BanLists, rights : Rights] :
        TagsGet(w.docs, Group, "kriminalamt", Absent) # Absent
            => w.bans = {} /\ w.rights \in KRights}

InitEvents ==
    /\ collections = [hex \in ab_collection_map |-> {}]
    /\ nextKey = [hex \in ab_collection_map |-> 1]
    /\ cmds = <<>>
    /\ \E w \in Worlds : chats = w.docs /\ banlist = w.bans /\ rights = w.rights
    /\ members = {}
    /\ tasks = <<>>
    /\ nEvents = 0

NextEvents ==
    \/ Dispatch
    \/ \E i \in 1..Len(tasks) : KWake(i)
    \/ \E i \in 1..Len(tasks) : KLocal(i)
    \/ \E i \in 1..Len(tasks) : KPurge(i)
    \/ \E i \in 1..Len(tasks) : GEntity(i)
    \/ \E i \in 1..Len(tasks) : GAdmins(i)
    \/ \E i \in 1..Len(tasks) : GBanned(i)
    \/ \E i \in 1..Len(tasks) : GNotify(i)
    \/ UserLeaves
    \/ UserReturns
    \/ ManualBan

SpecEvents == InitEvents /\ [][NextEvents]_vars

----------------------------------------------------------------------------
(* Properties of the blacklist commands *)

Range(f) == {f[i] : i \in DOMAIN f}

\* the hex type an invocation addresses ("None": none)
HexOf(t) == IF t.args = <<>> THEN "None" ELSE AUTOBAHN_TYPES(t.args[1])

RECURSIVE Reported(_, _)
\* the number of items the invocations 1..n report as added to the collection
\* of hex, less the number they report as deleted from it
Reported(hex, n) ==
    IF n = 0 THEN 0
    ELSE Reported(hex, n - 1)
         + (IF HexOf(cmds[n]) = hex
            THEN Len(cmds[n].added) - Len(cmds[n].removed) ELSE 0)

\* no two documents of a collection hold the same value
Unique == \A hex \in ab_collection_map :
              \A d, e \in collections[hex] : d.string = e.string => d = e

\* C5: in every state reachable by interleaved add commands (suspended at
\* their awaits) each collection holds at most one entry per value, and its
\* entry count is the number of items reported as added (less those reported
\* as deleted): an item reported as existing has not raised the count.
C5_BlacklistUnique ==
    /\ Unique
    /\ \A hex \in ab_collection_map :
           Cardinality(collections[hex]) = Reported(hex, Len(cmds))

\* two add commands interleave: one is suspended in its loop after it stored
\* a value, the other has reported that same value as existing
C5_Witness ==
    \E i, j \in 1..Len(cmds) :
        /\ i # j /\ cmds[i].cmd = "add" /\ cmds[j].cmd = "add"
        /\ cmds[i].pc = "item" /\ cmds[i].added # <<>>
        /\ cmds[j].existing # <<>> /\ cmds[j].existing[1] = cmds[i].added[1]

\* the items of del invocation idx that this step has processed
DelProcessed(idx) ==
    IF idx > Len(cmds) THEN {cmds'[idx].args[k] : k \in 2..Len(cmds'[idx].args)}
    ELSE {cmds[idx].args[k + 1] : k \in cmds[idx].i..(cmds'[idx].i - 1)}

\* an add on the collection of hex has processed the input text raw
AddedBefore(hex, raw) ==
    \E j \in 1..Len(cmds) :
        /\ cmds[j].cmd = "add" /\ HexOf(cmds[j]) = hex
        /\ \E k \in 1..(cmds[j].i - 1) : k < Len(cmds[j].args) /\ cmds[j].args[k + 1] = raw

\* C6 (as claimed): whenever del processes an input text that an add of the
\* same type has processed before, and the value that add stored for it is
\* in the collection, a lookup of that value finds no entry afterwards.
C6_RoundTrip ==
    [][\A idx \in 1..Len(cmds') :
          (cmds'[idx].cmd = "del" /\ HasCollection(HexOf(cmds'[idx]))) =>
              \A raw \in DelProcessed(idx) :
                  LET hex == HexOf(cmds'[idx])
                      n == Normalise(hex, raw)
                  IN  (/\ AddedBefore(hex, raw)
                       /\ n.kind = "ok"
                       /\ fetchByExample(collections[hex], n.item) # {})
                          => fetchByExample(collections'[hex], n.item) = {}]_vars

\* C8 (as claimed): an add under any of the eight type names that has
\* returned has found a collection for the type, and every item it did not
\* skip is an entry it reports as added or as existing.
C8_EveryTypeStores ==
    \A idx \in 1..Len(cmds) :
        LET t == cmds[idx] IN
        (/\ t.cmd = "add" /\ t.pc = "done" /\ t.out = "doc"
         /\ Len(t.args) > 1 /\ t.args[1] \in TypeNames) =>
                /\ HasCollection(HexOf(t))
                /\ \A k \in 2..Len(t.args) :
                       LET n == Normalise(HexOf(t), t.args[k])
                       IN  n.kind = "ok" =>
                               n.item \in Range(t.added) \cup Range(t.existing)

\* C9: the domain collection never holds one of Telegram's own domains, and
\* an add has reported every item that resolves to one of them as skipped,
\* and neither as added nor as existing.
C9_OwnDomainExcluded ==
    /\ \A d \in collections["0x4"] : d.string \notin TELEGRAM_DOMAINS
    /\ \A idx \in 1..Len(cmds) :
           LET t == cmds[idx] IN
           (t.cmd = "add" /\ HexOf(t) = "0x4") =>
               \A k \in 2..Len(t.args) :
                   LET item == Lower(ResolveUrl(t.args[k]))
                   IN  (k - 1 < t.i /\ item \in TELEGRAM_DOMAINS) =>
                           /\ item \in Range(t.skipped)
                           /\ item \notin Range(t.added) \cup Range(t.existing)

\* an add domain has returned after skipping one of Telegram's own domains
\* and storing another domain
C9_Witness ==
    \E idx \in 1..Len(cmds) :
        /\ cmds[idx].cmd = "add" /\ HexOf(cmds[idx]) = "0x4" /\ cmds[idx].pc = "done"
        /\ cmds[idx].skipped = <<<<"t">>>> /\ cmds[idx].added # <<>>

\* C10 (as claimed): a query by a single integer key, a del and an add on a
\* type with a collection never end in an exception.
C10_StoreErrorsAreResults ==
    \A idx \in 1..Len(cmds) :
        LET t == cmds[idx] IN
        (HasCollection(HexOf(t)) /\ (t.cmd = "query" => t.kw.code.k = "int"))
            => t.pc # "fault"

----------------------------------------------------------------------------
(* Properties of the event handlers *)

\* one step of invocation j, whichever its handler and position
Step(j) ==
    \/ KWake(j) \/ KLocal(j) \/ KPurge(j)
    \/ GEntity(j) \/ GAdmins(j) \/ GBanned(j) \/ GNotify(j)

\* the positions in the requests of t that hold a request op
Requests(t, op) == {k \in 1..Len(t.acts) : t.acts[k].op = op}

Finished(t) == t.pc \in {"done", "fault"}

\* the tag name of the chat of event e, as configured
TagOf(e, name) == TagsGet(chats, ChatId(e), name, Absent)

\* C1: a kriminalamt invocation asks for the membership only after a join of
\* a non-bot user in a chat whose kriminalamt tag is set; once the query has
\* reported that the user is no participant, exactly one global ban has been
\* requested, for that user, first of all requests, with a reason that holds
\* the chat id and the delay that was waited; once it has reported that the
\* user is a participant, the invocation has returned without any request.
C1_DelayedBan ==
    \A i \in 1..Len(tasks) :
        LET t == tasks[i] IN
        t.h = "kriminalamt" =>
            /\ t.participant # "unasked" =>
                   /\ user_joined(t.e) /\ ~t.e.bot
                   /\ Truthy(TagOf(t.e, "kriminalamt"))
                   /\ t.delay > 0
            /\ t.participant = "no" =>
                   /\ Requests(t, "gban") = {1}
                   /\ t.acts[1].user = t.e.user
                   /\ t.acts[1].reason.kind = "Kriminalamt"
                   /\ t.acts[1].reason.chat = ChatId(t.e)
                   /\ t.acts[1].reason.delay = t.delay
            /\ t.participant = "yes" => t.acts = <<>> /\ t.pc = "done"

\* a user joined a chat whose kriminalamt tag is the string "3", had left when
\* the query was made, and the handler has returned after a global ban
C1_Witness ==
    \E i \in 1..Len(tasks) :
        /\ tasks[i].h = "kriminalamt" /\ tasks[i].pc = "done"
        /\ tasks[i].participant = "no" /\ tasks[i].delay = 3
        /\ Requests(tasks[i], "gban") = {1}

\* the bot may ban in the group: it is the creator or an admin, and its admin
\* rights, if it has any, include ban_users
BotMayBan ==
    /\ rights.creator \/ rights.admin_rights # "None"
    /\ rights.admin_rights # "noban"

\* the case of C2: a join by link, an add or a message in the group, of a
\* user with a BanRecord, where the bot may ban and no tag excludes the chat,
\* and the admin list did not name the user
GuardCase(t) ==
    /\ t.h = "grenzschutz" /\ Finished(t)
    /\ ~t.e.private /\ t.e.action \in {"JoinedByLink", "AddUser", "Message"}
    /\ t.e.user # NoUser /\ t.listed /\ ~t.admin
    /\ BotMayBan
    /\ TagOf(t.e, "grenzschutz") # TStr(<<"exclude">>)
    /\ TagOf(t.e, "polizei") # TStr(<<"exclude">>)

\* C2 (as claimed): in that case the handler has requested the ban of the
\* user and then the deletion of the triggering action or message.
C2_GuardBansAndDeletes ==
    \A i \in 1..Len(tasks) :
        LET t == tasks[i] IN
        GuardCase(t) =>
            /\ Len(t.acts) >= 2
            /\ t.acts[1] = Act("ban", t.e.user, NoReason)
            /\ t.acts[2].op = "delete"

\* C2 (amended): in that case the handler has requested the ban of the user
\* first; where the platform accepted the ban the deletion of the triggering
\* action or message is its next request, and where the platform rejected it
\* (UserIdInvalidError) the ban is its only request.
C2_GuardBansThenDeletes ==
    \A i \in 1..Len(tasks) :
        LET t == tasks[i] IN
        GuardCase(t) =>
            /\ t.acts # <<>>
            /\ t.acts[1] = Act("ban", t.e.user, NoReason)
            /\ IF t.rejected THEN Len(t.acts) = 1
               ELSE Len(t.acts) >= 2 /\ t.acts[2].op = "delete"

\* a listed user wrote a message in the group and was banned, and the message
\* was deleted
C2_Witness ==
    \E i \in 1..Len(tasks) :
        /\ GuardCase(tasks[i]) /\ tasks[i].e.kind = "NewMessage"
        /\ ~tasks[i].rejected
        /\ Requests(tasks[i], "ban") = {1} /\ Requests(tasks[i], "delete") = {2}

\* C3: in a chat whose grenzschutz tag or whose polizei tag is 'exclude',
\* every grenzschutz invocation has returned at its entry: it has made no
\* request (no ban, no deletion, no notification), whatever the event, the
\* user and the ban list.
C3_Exclusion ==
    \A i \in 1..Len(tasks) :
        LET t == tasks[i] IN
        (/\ t.h = "grenzschutz"
         /\ \/ TagOf(t.e, "grenzschutz") = TStr(<<"exclude">>)
            \/ TagOf(t.e, "polizei") = TStr(<<"exclude">>)) =>
                t.acts = <<>> /\ t.pc = "done"

\* a listed user joined a group where the bot may ban and the polizei tag
\* alone is 'exclude': grenzschutz has returned without a request
C3_Witness ==
    \E i \in 1..Len(tasks) :
        LET t == tasks[i] IN
        /\ t.h = "grenzschutz" /\ t.pc = "done" /\ t.acts = <<>>
        /\ t.e.action = "JoinedByLink" /\ t.listed /\ BotMayBan
        /\ TagOf(t.e, "polizei") = TStr(<<"exclude">>)
        /\ TagOf(t.e, "grenzschutz") = Absent

\* the chat has no document, or one with neither tags nor named tags
EmptyConfig(chat_id) ==
    \A d \in chats : d.id = chat_id => d.tags = {} /\ DOMAIN d.named_tags = {}

\* C4 (as claimed): in a chat with an empty configuration neither kriminalamt
\* nor grenzschutz makes any request.
C4_FailClosed ==
    \A i \in 1..Len(tasks) :
        (tasks[i].h \in {"kriminalamt", "grenzschutz"} /\ EmptyConfig(ChatId(tasks[i].e)))
            => tasks[i].acts = <<>>

\* C4 (amended): kriminalamt is off unless its tag is set: in a chat with an
\* empty configuration it starts no wait, asks no membership and makes no
\* request, and wherever it has made a request the kriminalamt tag of the
\* chat is set to a truthy value. grenzschutz is not bound by this: it is on
\* by default, and off only where a tag excludes the chat.
C4_KriminalamtFailClosed ==
    \A i \in 1..Len(tasks) :
        LET t == tasks[i] IN
        /\ (t.h = "kriminalamt" /\ EmptyConfig(ChatId(t.e))) =>
               t.acts = <<>> /\ t.participant = "unasked" /\ t.pc = "done"
        /\ (t.h = "kriminalamt" /\ t.acts # <<>>) => Truthy(TagOf(t.e, "kriminalamt"))
        /\ (t.h = "grenzschutz" /\ t.acts # <<>>) =>
               /\ TagOf(t.e, "grenzschutz") # TStr(<<"exclude">>)
               /\ TagOf(t.e, "polizei") # TStr(<<"exclude">>)

\* a user who is no bot joined a group with an empty configuration:
\* kriminalamt has returned without a request, grenzschutz has banned
C4_Witness ==
    \E i, j \in 1..Len(tasks) :
        /\ EmptyConfig(Group) /\ tasks[i].ev = tasks[j].ev
        /\ tasks[i].h = "kriminalamt" /\ tasks[i].e.action = "JoinedByLink"
        /\ ~tasks[i].e.bot /\ tasks[i].pc = "done" /\ tasks[i].acts = <<>>
        /\ tasks[j].h = "grenzschutz" /\ Requests(tasks[j], "ban") # {}

\* the handlers invoked for event number ev, in the order of their invocation
RECURSIVE InvokedFor(_, _)
InvokedFor(ev, n) ==
    IF n = 0 THEN <<>>
    ELSE IF tasks[n].ev = ev THEN Append(InvokedFor(ev, n - 1), tasks[n].h)
    ELSE InvokedFor(ev, n - 1)

----------------------------------------------------------------------------
(* Further properties of the blacklist commands *)

\* the argument list of invocation t is one of the input errors: add or del
\* without a positional argument, query without the type keyword, or a type
\* name that is unknown or has no collection
InputError(t) ==
    IF t.cmd = "query" THEN t.kw.type = None \/ ~HasCollection(AUTOBAHN_TYPES(t.kw.type))
    ELSE t.args = <<>> \/ ~HasCollection(HexOf(t))

\* C11 (as claimed): an invocation whose argument list is an input error
\* never ends in an exception, and once it has returned it has handed back a
\* result and reports nothing as added or removed.
C11_InputErrorsNeverFault ==
    \A idx \in 1..Len(cmds) :
        LET t == cmds[idx] IN
        InputError(t) =>
            /\ t.pc # "fault"
            /\ t.pc = "done" => t.out \notin {"", "None"}
            /\ t.added = <<>> /\ t.removed = <<>>

IsNoDot(c) == c # "."

\* the items of add tld invocation t that its loop has gone through
TldProcessed(t) == {t.args[k + 1] : k \in 1..(t.i - 1)} \cap TldItems

\* C17 (as claimed): for every item that an add tld has gone through, the
\* value it reports as added or as existing is the item with its leading
\* dots stripped and the rest kept as it is.
C17_TldLeadingDots ==
    \A idx \in 1..Len(cmds) :
        LET t == cmds[idx] IN
        (t.cmd = "add" /\ HexOf(t) = "0x7") =>
            \A raw \in TldProcessed(t) :
                LStrip(raw, ".") \in Range(t.added) \cup Range(t.existing)

\* C17 (amended): for every item that an add tld has gone through, the value
\* it reports as added or as existing is the item with every dot removed,
\* the leading ones and the ones inside; no entry of the tld collection holds
\* a dot.
C17_TldAllDots ==
    /\ \A idx \in 1..Len(cmds) :
           LET t == cmds[idx] IN
           (t.cmd = "add" /\ HexOf(t) = "0x7") =>
               \A raw \in TldProcessed(t) :
                   SelectSeq(raw, IsNoDot) \in Range(t.added) \cup Range(t.existing)
    /\ \A d \in collections["0x7"] : SelectSeq(d.string, IsNoDot) = d.string

\* add tld has stored an item that has a leading dot and a dot inside, without
\* either dot
C17_Witness ==
    \E idx \in 1..Len(cmds) :
        /\ cmds[idx].cmd = "add" /\ HexOf(cmds[idx]) = "0x7" /\ cmds[idx].pc = "done"
        /\ <<".", "c", ".", "u">> \in TldProcessed(cmds[idx])
        /\ cmds[idx].added = <<<<"c", "u">>>>
        /\ \E d \in collections["0x7"] : d.string = <<"c", "u">>

----------------------------------------------------------------------------
(* Further properties of the event handlers *)

\* C12 (as claimed): a grenzschutz invocation whose get_entity failed (user
\* is left unbound) has made no request, neither ban nor deletion nor
\* notification, and has not ended in an exception.
C12_EntityFailureReturns ==
    \A i \in 1..Len(tasks) :
        LET t == tasks[i] IN
        (t.h = "grenzschutz" /\ ~t.bound) => t.acts = <<>> /\ t.pc # "fault"

\* C13: a kriminalamt invocation for a chat action that is no join of a user,
\* or whose joining account is a bot, or in a chat whose kriminalamt tag is
\* absent, has returned at its entry: it has started no wait, asked for no
\* membership, and made no request.
C13_StartCondition ==
    \A i \in 1..Len(tasks) :
        LET t == tasks[i] IN
        (/\ t.h = "kriminalamt"
         /\ \/ t.e.action \notin {"JoinedByLink", "JoinNoMsg"}
            \/ t.e.bot
            \/ TagOf(t.e, "kriminalamt") = Absent) =>
                /\ t.pc = "done" /\ t.delay = 0
                /\ t.participant = "unasked" /\ t.acts = <<>>

\* a bot joined by link, or a user was added by another one, in a group
\* whose kriminalamt tag is set: kriminalamt has returned without a wait
C13_Witness ==
    \E i \in 1..Len(tasks) :
        LET t == tasks[i] IN
        /\ t.h = "kriminalamt" /\ t.pc = "done" /\ t.delay = 0 /\ t.acts = <<>>
        /\ Truthy(TagOf(t.e, "kriminalamt"))
        /\ t.e.bot \/ t.e.action = "AddUser"

\* C14: whatever leaves, returns and bans by hand have happened while a
\* kriminalamt invocation waited, the step that ends its wait decides by the
\* membership at that moment alone: if the user is a participant then, the
\* invocation returns without a request and the ban list is left as it is;
\* if the user is no participant then, the global ban is requested and the
\* ban list holds a record of the user.
C14_LiveRequery ==
    [][\A i \in 1..Len(tasks) :
          (tasks[i].h = "kriminalamt" /\ tasks[i].pc = "sleep" /\ tasks'[i].pc # "sleep") =>
              IF tasks[i].e.user \in members
              THEN /\ tasks'[i].pc = "done" /\ tasks'[i].acts = <<>>
                   /\ banlist' = banlist
              ELSE /\ Requests(tasks'[i], "gban") = {1}
                   /\ tasks'[i].acts[1].user = tasks[i].e.user
                   /\ BanRecords(banlist', tasks[i].e.user) # {}]_vars

\* the user left and was banned by hand while the check waited; the query
\* found no participant and the global ban was requested all the same
C14_Witness ==
    \E i \in 1..Len(tasks) :
        /\ tasks[i].h = "kriminalamt" /\ tasks[i].participant = "no"
        /\ Requests(tasks[i], "gban") = {1}
        /\ tasks[i].e.user \notin members
        /\ \E d \in banlist : d.id = tasks[i].e.user /\ d.reason = OtherReason

\* the reasons an add_user may be called with
AnyReasons == {OtherReason} \cup {ReasonK(Group, n) : n \in 1..3}

ChatIds == {Group} \cup Users

\* C16: the Chats collection holds at most one document per chat id; after a
\* message in the group it holds the group's document; a private chat never
\* gets one; get_chat and add_chat of an id that has a document keep the
\* collection as it is, and of an id that has none add exactly the document
\* with empty tags and named_tags; no step changes or removes a document.
C16_LazyChatCreation ==
    /\ [](/\ \A d1, d2 \in chats : d1.id = d2.id => d1 = d2
          /\ \A d \in chats : d.id \notin Users
          /\ \A i \in 1..Len(tasks) :
                 (tasks[i].h = "add_groups" /\ ~tasks[i].e.private) =>
                     \E d \in chats : d.id = ChatId(tasks[i].e)
          /\ \A id \in ChatIds :
                 IF \E d \in chats : d.id = id
                 THEN get_chat(chats, id) = chats /\ add_chat(chats, id) = chats
                 ELSE /\ get_chat(chats, id) = chats \cup {NewChat(id)}
                      /\ get_chat(get_chat(chats, id), id) = get_chat(chats, id)
                      /\ NewChat(id).tags = {} /\ DOMAIN NewChat(id).named_tags = {})
    /\ [][/\ \A d \in chats : d \in chats'
          /\ chats' # chats =>
                 /\ chats' = chats \cup {NewChat(Group)}
                 /\ \A d \in chats : d.id # Group
                 /\ \E i \in 1..Len(tasks') :
                        /\ i > Len(tasks) /\ tasks'[i].h = "add_groups"
                        /\ ~tasks'[i].e.private]_vars

\* a message arrived in a group whose document holds named tags, and
\* add_groups has run: the document is the one with the named tags
C16_Witness ==
    \E i \in 1..Len(tasks) :
        /\ tasks[i].h = "add_groups" /\ tasks[i].pc = "done" /\ ~tasks[i].e.private
        /\ \E d \in chats : d.id = Group /\ DOMAIN d.named_tags # {}
        /\ Cardinality(chats) = 1

\* C18: a grenzschutz invocation that has requested a ban was invoked for a
\* message or for a join by link or an add, in the group and not in a private
\* chat, of a user; the bot is creator of the group or holds ban_users; the
\* ban list holds a record of the user; the admin list did not name the user;
\* and the ban is for that user. An invocation for a user without a record
\* has made no request at all.
C18_NecessaryConditions ==
    \A i \in 1..Len(tasks) :
        LET t == tasks[i] IN
        t.h = "grenzschutz" =>
            /\ Requests(t, "ban") # {} =>
                   /\ ~t.e.private
                   /\ t.e.action \in {"Message", "JoinedByLink", "AddUser"}
                   /\ t.e.user # NoUser
                   /\ rights.creator \/ rights.admin_rights = "ban"
                   /\ BanRecords(banlist, t.e.user) # {}
                   /\ ~t.admin
                   /\ \A k \in Requests(t, "ban") : t.acts[k].user = t.e.user
            /\ BanRecords(banlist, t.e.user) = {} => t.acts = <<>>

\* the bot is an admin with ban_users and not the creator, a listed user was
\* added to the group, and grenzschutz has requested the ban
C18_Witness ==
    \E i \in 1..Len(tasks) :
        /\ tasks[i].h = "grenzschutz" /\ Requests(tasks[i], "ban") # {}
        /\ tasks[i].e.action = "AddUser"
        /\ ~rights.creator /\ rights.admin_rights = "ban"

\* the requests of grenzschutz, in the order of the handler
GuardOrder == <<"ban", "delete", "notify">>

\* C19: the requests that a grenzschutz invocation has made are, in this
\* order and each at most once, the ban, the deletion and the notification:
\* nothing is deleted before the ban and nothing notified before the
\* deletion. Where the ban call was rejected (UserIdInvalidError) the
\* invocation has returned with the one ban as its only request.
C19_StepOrderAndAbort ==
    \A i \in 1..Len(tasks) :
        LET t == tasks[i] IN
        t.h = "grenzschutz" =>
            /\ Len(t.acts) <= Len(GuardOrder)
            /\ \A k \in 1..Len(t.acts) : t.acts[k].op = GuardOrder[k]
            /\ t.rejected =>
                   /\ t.pc = "done"
                   /\ t.acts = <<Act("ban", t.e.user, NoReason)>>

\* the ban of a listed user was rejected: grenzschutz has returned with the
\* ban as its only request
C19_Witness ==
    \E i \in 1..Len(tasks) :
        /\ tasks[i].h = "grenzschutz" /\ tasks[i].rejected /\ tasks[i].pc = "done"
        /\ Len(tasks[i].acts) = 1 /\ tasks[i].acts[1].op = "ban"

\* C20 (as claimed): a grenzschutz invocation that has requested the ban and
\* the deletion and has ended has sent exactly one notification, with the
\* user and the reason of the user's record, where the grenzschutz tag of the
\* chat is not 'silent', and none where it is 'silent'.
C20_Notification ==
    \A i \in 1..Len(tasks) :
        LET t == tasks[i] IN
        (/\ t.h = "grenzschutz" /\ Finished(t)
         /\ Requests(t, "ban") # {} /\ Requests(t, "delete") # {}) =>
            IF TagOf(t.e, "grenzschutz") = TStr(<<"silent">>)
            THEN Requests(t, "notify") = {}
            ELSE /\ Cardinality(Requests(t, "notify")) = 1
                 /\ \A k \in Requests(t, "notify") :
                        /\ t.acts[k].user = t.e.user
                        /\ t.acts[k].reason = get_user(banlist, t.e.user).reason

----------------------------------------------------------------------------
(* Properties of kriminalamt's actions *)

\* the requests kriminalamt makes in the chat itself
LocalOps == {"ban", "relay", "delete_history", "delete"}

\* a kriminalamt invocation whose membership query found the user departed
Departed(t) == t.h = "kriminalamt" /\ t.participant = "no"

\* C21: once the membership query of a kriminalamt invocation has found the
\* user departed, the first request of the invocation is the global ban,
\* whatever the bot's standing in the chat; a local ban, a relayed command or
\* a deletion is requested only where the bot is creator or admin of the
\* chat, and only after the global ban; and where the bot is neither, the
\* invocation returns with the global ban as its only request.
C21_ScopeAndOrder ==
    \A i \in 1..Len(tasks) :
        LET t == tasks[i] IN
        Departed(t) =>
            /\ Len(t.acts) >= 1 /\ t.acts[1].op = "gban"
            /\ \E d \in banlist : d.id = t.e.user
            /\ \A k \in 1..Len(t.acts) :
                   t.acts[k].op \in LocalOps =>
                       /\ rights.creator \/ rights.admin_rights # "None"
                       /\ \E g \in 1..(k - 1) : t.acts[g].op = "gban"
            /\ (~rights.creator /\ rights.admin_rights = "None" /\ t.pc = "done")
                   => Len(t.acts) = 1

\* in a chat where the bot is neither creator nor admin, a user who joined
\* had left when the query was made: the invocation has returned with the
\* global ban as its only request, and the ban list holds the record
C21_Witness ==
    \E i \in 1..Len(tasks) :
        /\ Departed(tasks[i]) /\ tasks[i].pc = "done"
        /\ ~rights.creator /\ rights.admin_rights = "None"
        /\ Requests(tasks[i], "gban") = {1} /\ Len(tasks[i].acts) = 1
        /\ \E d \in banlist : d.id = tasks[i].e.user /\ d.reason = tasks[i].reason

\* a kriminalamt invocation that found the user departed, in a chat where the
\* bot is creator or admin, and that is past its local ban or relay
ActedLocally(t) ==
    /\ Departed(t) /\ t.pc \in {"purge", "done"}
    /\ rights.creator \/ rights.admin_rights # "None"

\* C22: where kriminalamt acts in a chat whose bot is creator or admin, and
\* the gbancmd tag is absent or is 'manual', the user is banned in the chat
\* by one direct ban and nothing is relayed; with any other value of the tag
\* one reply is sent, made of the tag's value, the user id and the reason of
\* the global ban, and no direct ban is requested.
C22_BanOrRelay ==
    \A i \in 1..Len(tasks) :
        LET t == tasks[i]
            tag == TagOf(t.e, "gbancmd")
        IN  ActedLocally(t) =>
                IF tag = Absent \/ tag = TStr(<<"manual">>)
                THEN /\ Cardinality(Requests(t, "ban")) = 1
                     /\ \A k \in Requests(t, "ban") : t.acts[k].user = t.e.user
                     /\ Requests(t, "relay") = {}
                     /\ t.text = NoText
                ELSE /\ Cardinality(Requests(t, "relay")) = 1
                     /\ t.text = [cmd |-> tag, user |-> t.e.user,
                                  reason |-> ReasonK(ChatId(t.e), t.delay)]
                     /\ t.text.reason = t.acts[1].reason
                     /\ Requests(t, "ban") = {}

\* in a chat where the bot is admin and the gbancmd tag is '/gban', a user
\* who joined had left when the query was made, and the command was relayed
C22_Witness ==
    \E i \in 1..Len(tasks) :
        /\ ActedLocally(tasks[i])
        /\ ~rights.creator
        /\ TagOf(tasks[i].e, "gbancmd") = TStr(<<"/gban">>)
        /\ Requests(tasks[i], "relay") = {2}
        /\ tasks[i].text.cmd = TStr(<<"/gban">>)

\* the requests that purge messages
PurgeOps == {"delete_history", "delete"}

\* C23: a kriminalamt invocation that has acted in a chat where the bot is
\* creator or admin, and has returned, has requested exactly one purge, as
\* its last request: the deletion of the user's whole history in the chat if
\* the number of the user's messages there was at most 5, and the deletion
\* of the triggering message alone if it was more.
C23_PurgeRule ==
    \A i \in 1..Len(tasks) :
        LET t == tasks[i]
            purges == {k \in 1..Len(t.acts) : t.acts[k].op \in PurgeOps}
        IN  (ActedLocally(t) /\ t.pc = "done") =>
                /\ purges = {Len(t.acts)}
                /\ t.acts[Len(t.acts)].op =
                       IF t.total <= PurgeLimit THEN "delete_history" ELSE "delete"
                /\ t.acts[Len(t.acts)].op = "delete_history"
                       => t.acts[Len(t.acts)].user = t.e.user

\* in a chat where the bot is creator and gbancmd is 'manual', a departed
\* user with exactly 5 messages was banned and the whole history deleted
C23_Witness ==
    \E i \in 1..Len(tasks) :
        /\ ActedLocally(tasks[i]) /\ tasks[i].pc = "done"
        /\ rights.creator
        /\ TagOf(tasks[i].e, "gbancmd") = TStr(<<"manual">>)
        /\ tasks[i].total = PurgeLimit
        /\ Requests(tasks[i], "ban") = {2}
        /\ Requests(tasks[i], "delete_history") = {3}

\* a kriminalamt invocation that has started its wait
Waited(t) == t.h = "kriminalamt" /\ (t.pc = "sleep" \/ t.participant # "unasked")

\* the tag value names a number of seconds: an integer or a digit string
NamesSeconds(tag) == tag.t = "int" \/ (tag.t = "str" /\ IsDigit(tag.s))

\* C24: a kriminalamt invocation that has started its wait was started in a
\* chat whose kriminalamt tag is an integer or a digit string, the seconds it
\* waits are the number the tag names, and so is the number in the reason of
\* its global ban; no wait is started on a tag value of another shape.
C24_DelayIsTagValue ==
    \A i \in 1..Len(tasks) :
        LET t == tasks[i]
            tag == TagOf(t.e, "kriminalamt")
        IN  Waited(t) =>
                /\ NamesSeconds(tag)
                /\ t.delay = (IF tag.t = "int" THEN tag.n ELSE IntOf(tag.s))
                /\ t.participant = "no" => t.acts[1].reason.delay = t.delay

----------------------------------------------------------------------------
(* Properties of the hashed media and of the query by key *)

\* invocation idx is an add mhash that hashes the replied-to photo in this
\* step
HashesPhoto(idx) ==
    /\ cmds[idx].cmd = "add" /\ cmds[idx].pc = "hash"
    /\ AUTOBAHN_TYPES(cmds[idx].args[1]) = "0x6"
    /\ cmds'[idx].pc = "done"

\* C25: when add mhash has hashed the replied-to photo, a hash that the
\* collection did not hold is stored under a new key and reported as added,
\* whatever its characters, and the warning is part of the result exactly if
\* the hash holds the character '0' more than 8 times; a hash the collection
\* held already is reported as existing, the collection is left as it was,
\* and no warning is given.
C25_PhotoHashWarning ==
    [][\A idx \in 1..Len(cmds) :
          HashesPhoto(idx) =>
              LET t == cmds'[idx]
                  shown == t.added \o t.existing
                  h == shown[1]
                  old == collections["0x6"]
                  new == collections'["0x6"]
              IN  /\ Len(shown) = 1 /\ h \in PhotoHashes
                  /\ IF fetchByExample(old, h) = {}
                     THEN /\ t.added = <<h>>
                          /\ Cardinality(new) = Cardinality(old) + 1
                          /\ \E d \in new \ old : d.string = h /\ new = old \cup {d}
                          /\ t.warn <=> Count(h, "0") > WarnZeros
                     ELSE /\ t.existing = <<h>>
                          /\ new = old
                          /\ ~t.warn]_vars

\* a photo whose hash holds nine zeros was added with the warning, and added
\* again: the second command reports it as existing, without the warning
C25_Witness ==
    /\ Len(cmds) = 2
    /\ cmds[1].args = <<<<"mhash">>>> /\ cmds[2].args = <<<<"mhash">>>>
    /\ cmds[1].pc = "done" /\ cmds[2].pc = "done"
    /\ \E h \in PhotoHashes :
           /\ Count(h, "0") > WarnZeros
           /\ \/ cmds[1].added = <<h>> /\ cmds[1].warn /\ cmds[2].existing = <<h>>
                     /\ ~cmds[2].warn
              \/ cmds[2].added = <<h>> /\ cmds[2].warn /\ cmds[1].existing = <<h>>
                     /\ ~cmds[1].warn
           /\ Cardinality(fetchByExample(collections["0x6"], h)) = 1

\* a query by a range of keys, of a type name that has a collection
RangeQuery(t) ==
    /\ t.cmd = "query" /\ t.kw.code.k = "range"
    /\ t.kw.type # None /\ HasCollection(AUTOBAHN_TYPES(t.kw.type))

\* the keys of the collections that hold no document though a later key does
\* or did: the keys of removed items
Gaps(hex) == {k \in 1..(nextKey[hex] - 1) : \A d \in collections[hex] : d.key # k}

\* C26: a query of a type that has a collection by a range of keys returns
\* without a fault, whatever keys of the range are missing; for every key of
\* the range it returns the document the collection holds under that key at
\* the time of the query, with that key and its string, and nothing for a key
\* that holds none (the key of a removed item, or a key not assigned yet);
\* and it returns nothing else.
C26_RangeQuery ==
    [][(Len(cmds') = Len(cmds) + 1 /\ RangeQuery(cmds'[Len(cmds')])) =>
          LET t == cmds'[Len(cmds')]
              hex == AUTOBAHN_TYPES(t.kw.type)
              keys == t.kw.code.lo..t.kw.code.hi
          IN  /\ t.pc = "done" /\ t.out = "items"
              /\ t.rows \subseteq collections[hex]
              /\ \A d \in t.rows : d.key \in keys
              /\ \A k \in keys :
                     {d \in t.rows : d.key = k} = {d \in collections[hex] : d.key = k}
              /\ \A k \in keys \cap Gaps(hex) : \A d \in t.rows : d.key # k
              /\ collections' = collections]_vars

\* a range query of a collection whose first key was removed and whose
\* second key holds an item: the query has returned that item alone
C26_Witness ==
    \E i \in 1..Len(cmds) :
        /\ RangeQuery(cmds[i])
        /\ LET hex == AUTOBAHN_TYPES(cmds[i].kw.type)
           IN  /\ 1 \in Gaps(hex)
               /\ cmds[i].kw.code.lo = 1 /\ cmds[i].kw.code.hi = 3
               /\ \E d \in collections[hex] : d.key = 2 /\ cmds[i].rows = {d}

----------------------------------------------------------------------------
(* The result lists of add *)

\* an add of a type name that has a collection
StoringAdd(t) == t.cmd = "add" /\ t.args # <<>> /\ HasCollection(HexOf(t))

\* the items the result lists of t report
NReported(t) == Len(t.added) + Len(t.existing) + Len(t.skipped)

\* the items reported as added by invocation idx before this step
ReportedAddedBefore(idx) == IF idx > Len(cmds) THEN 0 ELSE Len(cmds[idx].added)

\* C27: an add of a type name that has a collection never ends in an
\* exception, so that every item it was given comes to be reported; once it
\* has returned, its three result lists together hold as many entries as
\* items were given (one for the hashed media of an add without items); and
\* in every step of the add the collection grows by exactly the items the
\* step reports as added, and is left as it was by a step that reports none.
C27_AddPartition ==
    /\ [](\A idx \in 1..Len(cmds) :
              LET t == cmds[idx] IN
              StoringAdd(t) =>
                  /\ t.pc # "fault"
                  /\ NReported(t) <= Len(Tail(t.args))
                         \/ (Tail(t.args) = <<>> /\ NReported(t) <= 1)
                  /\ (t.pc = "done" /\ Tail(t.args) # <<>>)
                         => NReported(t) = Len(Tail(t.args)))
    /\ [][\A idx \in 1..Len(cmds') :
              (StoringAdd(cmds'[idx]) /\ (idx > Len(cmds) \/ cmds'[idx] # cmds[idx])) =>
                  LET hex == HexOf(cmds'[idx])
                      grown == Len(cmds'[idx].added) - ReportedAddedBefore(idx)
                  IN  /\ Cardinality(collections'[hex])
                             = Cardinality(collections[hex]) + grown
                      /\ collections[hex] \subseteq collections'[hex]
                      /\ grown = 0 => collections' = collections]_vars

=============================================================================
